---- MODULE Spec2Model ----
(***************************************************************************)
(* Model of anomalib/cli/utils/installation.py: requirement parsing, CUDA  *)
(* detection, CUDA version negotiation against AVAILABLE_TORCH_VERSIONS,   *)
(* hardware-suffix derivation and construction of the installer arguments. *)
(*                                                                         *)
(* Python strings are sequences of one-character strings, so that          *)
(* comparison, replace, split, startswith and concatenation are computed   *)
(* the way Python computes them.                                           *)
(***************************************************************************)
EXTENDS Integers, Sequences, FiniteSets, TLC

\* ---------------------------------------------------------------- bounds
MaxMinor == 10
MaxSpecs == 3
MaxReqs == 3

\* ------------------------------------------------------- Python strings
Digits == <<"0","1","2","3","4","5","6","7","8","9">>

IsDigit(c) == \E i \in 1..10 : Digits[i] = c

DigitVal(c) == (CHOOSE i \in 1..10 : Digits[i] = c) - 1

\* code points of the characters that take part in a string comparison
Punctuation == <<"!", "+", ",", ".", "<", "=", ">", "~">>

PunctuationOrd == <<33, 43, 44, 46, 60, 61, 62, 126>>

Ord(c) ==
  IF IsDigit(c) THEN 48 + DigitVal(c)
  ELSE IF \E i \in 1..Len(Punctuation) : Punctuation[i] = c
  THEN PunctuationOrd[CHOOSE i \in 1..Len(Punctuation) : Punctuation[i] = c]
  ELSE 0

RECURSIVE StrLess(_, _)
\* Python's a < b on str: lexicographic on code points
StrLess(a, b) ==
  IF b = <<>> THEN FALSE
  ELSE IF a = <<>> THEN TRUE
  ELSE IF Ord(Head(a)) # Ord(Head(b)) THEN Ord(Head(a)) < Ord(Head(b))
  ELSE StrLess(Tail(a), Tail(b))

\* Python's min(a, b) / max(a, b) on two values: the first one wins a tie
PyMin2(a, b) == IF StrLess(b, a) THEN b ELSE a

PyMax2(a, b) == IF StrLess(a, b) THEN b ELSE a

RECURSIVE PyMax(_)
\* max(iterable) over a non-empty sequence of strings
PyMax(xs) == IF Len(xs) = 1 THEN xs[1] ELSE PyMax2(xs[1], PyMax(Tail(xs)))

RECURSIVE PyMin(_)
PyMin(xs) == IF Len(xs) = 1 THEN xs[1] ELSE PyMin2(xs[1], PyMin(Tail(xs)))

StartsWith(s, p) == Len(s) >= Len(p) /\ SubSeq(s, 1, Len(p)) = p

RECURSIVE Replace(_, _, _)
\* str.replace(old, new) for a non-empty old: every occurrence, left to right
Replace(s, old, new) ==
  IF Len(s) < Len(old) THEN s
  ELSE IF SubSeq(s, 1, Len(old)) = old
       THEN new \o Replace(SubSeq(s, Len(old) + 1, Len(s)), old, new)
       ELSE <<Head(s)>> \o Replace(Tail(s), old, new)

RECURSIVE SplitFrom(_, _, _)
SplitFrom(s, sep, cur) ==
  IF s = <<>> THEN <<cur>>
  ELSE IF Head(s) = sep THEN <<cur>> \o SplitFrom(Tail(s), sep, <<>>)
  ELSE SplitFrom(Tail(s), sep, Append(cur, Head(s)))

\* str.split(sep) for a one-character separator
Split(s, sep) == SplitFrom(s, sep, <<>>)

RECURSIVE Join(_, _)
\* sep.join(parts)
Join(sep, parts) ==
  IF parts = <<>> THEN <<>>
  ELSE IF Len(parts) = 1 THEN parts[1]
  ELSE parts[1] \o sep \o Join(sep, Tail(parts))

\* parts[:n]
Take(xs, n) == SubSeq(xs, 1, IF Len(xs) < n THEN Len(xs) ELSE n)

\* c in s, for a one-character c
Contains(s, c) == \E i \in 1..Len(s) : s[i] = c

RECURSIVE Str(_)
\* str(n) for a natural number
Str(n) == IF n < 10 THEN <<Digits[n + 1]>> ELSE Str(n \div 10) \o <<Digits[(n % 10) + 1]>>

\* ------------------------------------------------ Optional values (None)
None == [some |-> FALSE, v |-> <<>>]

Some(x) == [some |-> TRUE, v |-> x]

\* truthiness of an optional string: None and "" are falsy
Truthy(o) == o.some /\ o.v # <<>>

\* ------------------------------------------------- outcome of one call
Return(v, w) == [kind |-> "return", val |-> v, exc |-> "", warns |-> w]

Raise(e, w) == [kind |-> "raise", val |-> <<>>, exc |-> e, warns |-> w]

\* ----------------------------------------------------- the static table
AVAILABLE_TORCH_VERSIONS ==
  (<<"2",".","0",".","0">> :> [torchvision |-> <<"0",".","1","5",".","1">>, cuda |-> <<<<"1","1",".","7">>, <<"1","1",".","8">>>>]) @@
  (<<"2",".","0",".","1">> :> [torchvision |-> <<"0",".","1","5",".","2">>, cuda |-> <<<<"1","1",".","7">>, <<"1","1",".","8">>>>]) @@
  (<<"2",".","1",".","1">> :> [torchvision |-> <<"0",".","1","6",".","1">>, cuda |-> <<<<"1","1",".","8">>, <<"1","2",".","1">>>>]) @@
  (<<"2",".","1",".","2">> :> [torchvision |-> <<"0",".","1","6",".","2">>, cuda |-> <<<<"1","1",".","8">>, <<"1","2",".","1">>>>]) @@
  (<<"2",".","2",".","0">> :> [torchvision |-> <<"0",".","1","6",".","2">>, cuda |-> <<<<"1","1",".","8">>, <<"1","2",".","1">>>>])

TorchVersions == DOMAIN AVAILABLE_TORCH_VERSIONS

\* the table's keys in the order the dict lists them
TorchVersionKeys == <<<<"2",".","0",".","0">>, <<"2",".","0",".","1">>, <<"2",".","1",".","1">>, <<"2",".","1",".","2">>, <<"2",".","2",".","0">>>>

\* ------------------------------------------------- version negotiation
update_cuda_version_with_available_torch_cuda_build(cuda_version, torch_version) ==
  IF torch_version \notin TorchVersions THEN Raise("KeyError", {})
  ELSE
    LET max_supported_cuda == PyMax(AVAILABLE_TORCH_VERSIONS[torch_version].cuda)
        min_supported_cuda == PyMin(AVAILABLE_TORCH_VERSIONS[torch_version].cuda)
        bounded_cuda_version ==
          PyMax2(PyMin2(cuda_version, max_supported_cuda), min_supported_cuda)
    IN IF cuda_version # bounded_cuda_version
       THEN Return(bounded_cuda_version, {"cuda_clamped"})
       ELSE Return(cuda_version, {})

\* get_cuda_suffix with replace(".", "", 1): only the first dot is removed
get_cuda_suffix_first_dot(cuda_version) ==
  IF ~Contains(cuda_version, ".") THEN <<"c","u">> \o cuda_version
  ELSE LET i == CHOOSE k \in 1..Len(cuda_version) :
                  cuda_version[k] = "." /\ \A j \in 1..(k - 1) : cuda_version[j] # "."
       IN <<"c","u">> \o SubSeq(cuda_version, 1, i - 1) \o SubSeq(cuda_version, i + 1, Len(cuda_version))

get_cuda_suffix(cuda_version) == <<"c","u">> \o Replace(cuda_version, <<".">>, <<>>)

\* -------------------------------------------------- accelerator detection
\* length of the longest run of digits of s that starts at position i
RECURSIVE DigitRun(_, _)
DigitRun(s, i) == IF i <= Len(s) /\ IsDigit(s[i]) THEN 1 + DigitRun(s, i + 1) ELSE 0

\* re.match of cuda_(\d+\.\d+) at position i: group 1, or None
RegexMatchAt(s, i) ==
  LET p  == <<"c","u","d","a","_">>
      j  == i + Len(p)
      d1 == DigitRun(s, j)
      k  == j + d1
      d2 == DigitRun(s, k + 1)
  IN IF /\ i + Len(p) - 1 <= Len(s)
        /\ SubSeq(s, i, i + Len(p) - 1) = p
        /\ d1 >= 1
        /\ k <= Len(s)
        /\ s[k] = "."
        /\ d2 >= 1
     THEN Some(SubSeq(s, j, k + d2))
     ELSE None

\* the first of two optional values that holds one
OrElse(first, second) == IF first.some THEN first ELSE second

RECURSIVE RegexSearchFrom(_, _)
RegexSearchFrom(s, i) ==
  IF i > Len(s) THEN None
  ELSE OrElse(RegexMatchAt(s, i), RegexSearchFrom(s, i + 1))

\* re.search(r"cuda_(\d+\.\d+)", output): the leftmost match
RegexSearch(s) == RegexSearchFrom(s, 1)

\* the part of get_cuda_version after the version.json check
nvcc_check(e) ==
  IF e.popen_fails THEN Return(None, {"cuda_not_found"})
  ELSE Return(RegexSearch(e.nvcc_output), {})

\* e is the environment: the toolkit path, version.json, nvcc, the host OS
get_cuda_version(e) ==
  IF e.cuda_home_exists /\ e.version_file.kind # "absent"
  THEN IF e.version_file.kind = "unreadable" THEN Raise("PermissionError", {})
       ELSE IF e.version_file.kind = "malformed" THEN Raise("JSONDecodeError", {})
       ELSE LET cuda_version == e.version_file.version
            IN IF cuda_version.some
               THEN Return(Some(Join(<<".">>, Take(Split(cuda_version.v, "."), 2))), {})
               ELSE nvcc_check(e)
  ELSE nvcc_check(e)

\* ------------------------------------------------------ hardware suffix
\* the suffix of a negotiated version (upd is the negotiation's outcome)
negotiated_suffix(upd, warns) ==
  IF upd.kind = "raise" THEN Raise(upd.exc, warns)
  ELSE Return(get_cuda_suffix(upd.val), warns \cup upd.warns)

\* hardware_suffix_of without the CPU branch: the suffix is built even when
\* nothing was detected
hardware_suffix_of_no_cpu(detected, with_available_torch_build, torch_version) ==
  IF detected.kind = "raise" THEN detected
  ELSE IF Truthy(detected.val)
  THEN IF with_available_torch_build
       THEN IF ~torch_version.some THEN Raise("ValueError", detected.warns)
            ELSE negotiated_suffix(
                   update_cuda_version_with_available_torch_cuda_build(
                     detected.val.v, torch_version.v),
                   detected.warns)
       ELSE Return(get_cuda_suffix(detected.val.v), detected.warns)
  ELSE Return(get_cuda_suffix(<<>>), detected.warns)

\* the body of get_hardware_suffix, given the outcome of get_cuda_version()
hardware_suffix_of(detected, with_available_torch_build, torch_version) ==
  IF detected.kind = "raise" THEN detected
  ELSE IF Truthy(detected.val)
  THEN IF with_available_torch_build
       THEN IF ~torch_version.some THEN Raise("ValueError", detected.warns)
            ELSE negotiated_suffix(
                   update_cuda_version_with_available_torch_cuda_build(
                     detected.val.v, torch_version.v),
                   detected.warns)
       ELSE Return(get_cuda_suffix(detected.val.v), detected.warns)
  ELSE Return(<<"c","p","u">>, detected.warns)

get_hardware_suffix(e, with_available_torch_build, torch_version) ==
  hardware_suffix_of(get_cuda_version(e), with_available_torch_build, torch_version)

\* ---------------------------------------------------------- requirements
\* a Requirement: unsafe_name and specs, a sequence of <<operator, version>>
Requirement(name, specs) == [unsafe_name |-> name, specs |-> specs]

RECURSIVE Insert(_, _)
Insert(x, sorted) ==
  IF sorted = <<>> THEN <<x>>
  ELSE IF StrLess(x, Head(sorted)) THEN <<x>> \o sorted
  ELSE <<Head(sorted)>> \o Insert(x, Tail(sorted))

RECURSIVE Sorted(_)
\* sorted(xs) on strings
Sorted(xs) == IF xs = <<>> THEN <<>> ELSE Insert(Head(xs), Sorted(Tail(xs)))

\* str(requirement): the name followed by its constraints, sorted and
\* comma-separated
ReqStr(r) ==
  r.unsafe_name \o
    Join(<<",">>, Sorted([i \in 1..Len(r.specs) |-> r.specs[i][1] \o r.specs[i][2]]))

RECURSIVE ParseLoop(_, _, _, _)
\* the for loop of parse_requirements, from the i-th requirement on
ParseLoop(requirements, i, torch_requirement, acc) ==
  IF i > Len(requirements) THEN acc @@ [torch |-> torch_requirement]
  ELSE LET requirement == requirements[i]
       IN IF requirement.unsafe_name = <<"t","o","r","c","h">>
          THEN ParseLoop(requirements, i + 1, Some(ReqStr(requirement)),
                 [acc EXCEPT !.warns = IF Len(requirement.specs) > 1
                                       THEN @ \cup {"torch_multiple_versions"} ELSE @])
          ELSE ParseLoop(requirements, i + 1, torch_requirement,
                 [acc EXCEPT !.others = Append(@, ReqStr(requirement))])

\* every list that list(set(xs)) can be: the distinct elements in any order
ListOfSet(xs) ==
  LET S == {xs[i] : i \in 1..Len(xs)}
  IN {f \in [1..Cardinality(S) -> S] : \A i, j \in 1..Cardinality(S) : f[i] = f[j] => i = j}

\* parse_outcomes that tests only `not torch_requirement`, ignoring skip_torch
parse_outcomes_ignores_skip(done, skip_torch) ==
  IF ~Truthy(done.torch)
  THEN {Raise("ValueError", done.warns)}
  ELSE {Return([torch_requirement |-> done.torch, other_requirements |-> l], done.warns)
          : l \in ListOfSet(done.others)}

\* the part of parse_requirements after the loop: done is what the loop built
parse_outcomes(done, skip_torch) ==
  IF ~skip_torch /\ ~Truthy(done.torch)
  THEN {Raise("ValueError", done.warns)}
  ELSE {Return([torch_requirement |-> done.torch, other_requirements |-> l], done.warns)
          : l \in ListOfSet(done.others)}

\* the outcomes of parse_requirements(requirements, skip_torch)
parse_requirements(requirements, skip_torch) ==
  parse_outcomes(ParseLoop(requirements, 1, None, [others |-> <<>>, warns |-> {}]), skip_torch)

\* --------------------------------------------------- suffixed specifiers
\* version + f"+{hardware_suffix}" unless the version starts with 2.1 or 2.2
updated_version(version, hardware_suffix) ==
  IF ~(StartsWith(version, <<"2",".","1">>) \/ StartsWith(version, <<"2",".","2">>))
  THEN version \o <<"+">> \o hardware_suffix
  ELSE version

RECURSIVE SuffixLoop(_, _, _, _, _, _, _)
RECURSIVE SuffixStep(_, _, _, _, _, _, _)
\* one iteration of the loop, given the outcome of `hardware_suffix or
\* get_hardware_suffix(with_available_torch_build, version)`
SuffixStep(looked, e, specs, i, with_available_torch_build, updated_specs, warns) ==
  IF looked.kind = "raise" THEN Raise(looked.exc, warns \cup looked.warns)
  ELSE SuffixLoop(e, specs, i + 1, Some(looked.val), with_available_torch_build,
                  Append(updated_specs, specs[i][1] \o updated_version(specs[i][2], looked.val)),
                  warns \cup looked.warns)

\* the for loop of add_hardware_suffix_to_torch, from the i-th spec on
SuffixLoop(e, specs, i, hardware_suffix, with_available_torch_build, updated_specs, warns) ==
  IF i > Len(specs) THEN Return(updated_specs, warns)
  ELSE SuffixStep(IF Truthy(hardware_suffix) THEN Return(hardware_suffix.v, {})
                  ELSE get_hardware_suffix(e, with_available_torch_build, Some(specs[i][2])),
                  e, specs, i, with_available_torch_build, updated_specs, warns)

\* the part of add_hardware_suffix_to_torch after the loop
updated_requirement(name, loop) ==
  IF loop.kind = "raise" THEN loop
  ELSE IF loop.val = <<>> THEN Return(<<>>, loop.warns)
  ELSE IF Len(loop.val) = 1 THEN Return(name \o loop.val[1], loop.warns)
  ELSE IF Len(loop.val) = 2
  THEN Return(name \o loop.val[1] \o <<","," ">> \o loop.val[2], loop.warns)
  ELSE Raise("ValueError", loop.warns)

add_hardware_suffix_to_torch(e, requirement, hardware_suffix, with_available_torch_build) ==
  updated_requirement(requirement.unsafe_name,
                      SuffixLoop(e, requirement.specs, 1, hardware_suffix,
                                 with_available_torch_build, <<>>, {}))

\* ------------------------------------------------------ installer arguments
RECURSIVE SelectSpecIdx(_, _)
\* the index of the first spec whose operator contains "=", else the first
SelectSpecIdx(specs, i) ==
  IF i > Len(specs) THEN 1
  ELSE IF Contains(specs[i][1], "=") THEN i
  ELSE SelectSpecIdx(specs, i + 1)

IndexUrlPrefix == <<"h","t","t","p","s",":","/","/","d","o","w","n","l","o","a","d",".","p","y","t","o","r","c","h",".","o","r","g","/","w","h","l","/">>

\* f"torchvision{operator}{torchvision_version}", suffixed unless 0.16.x
torchvision_requirement(operator, torchvision_version, hardware_suffix) ==
  <<"t","o","r","c","h","v","i","s","i","o","n">> \o operator \o torchvision_version \o
    (IF ~StartsWith(torchvision_version, <<"0",".","1","6">>) THEN <<"+">> \o hardware_suffix ELSE <<>>)

\* the end of the Linux/Windows branch: tv is the outcome of
\* add_hardware_suffix_to_torch
linux_install_args(tv, hardware_suffix, operator, version, warns) ==
  IF tv.kind = "raise" THEN Raise(tv.exc, warns \cup tv.warns)
  ELSE Return(<<<<"-","-","e","x","t","r","a","-","i","n","d","e","x","-","u","r","l">>, IndexUrlPrefix \o hardware_suffix, tv.val,
                torchvision_requirement(operator,
                                        AVAILABLE_TORCH_VERSIONS[version].torchvision,
                                        hardware_suffix)>>,
              warns \cup tv.warns)

\* the Linux/Windows branch: hs is the outcome of get_hardware_suffix
linux_branch(hs, e, requirement, operator, version, warns) ==
  IF hs.kind = "raise" THEN Raise(hs.exc, warns \cup hs.warns)
  ELSE linux_install_args(
         add_hardware_suffix_to_torch(e, requirement, Some(hs.val), TRUE),
         hs.val, operator, version, warns \cup hs.warns)

\* get_torch_install_args from the platform test on; version is the selected
\* version, replaced by the table's largest key when it is not in the table
platform_branch(e, requirement, operator, version, warns) ==
  IF e.system \in {"Linux", "Windows"}
  THEN linux_branch(get_hardware_suffix(e, TRUE, Some(version)),
                    e, requirement, operator, version, warns)
  ELSE IF e.system \in {"macos", "Darwin"}
  THEN Return(<<ReqStr(requirement)>>, warns)
  ELSE Raise("RuntimeError", warns)

\* get_torch_install_args, given the selected (operator, version)
with_selected_spec(e, requirement, spec) ==
  IF spec[2] \in TorchVersions
  THEN platform_branch(e, requirement, spec[1], spec[2], {})
  ELSE platform_branch(e, requirement, spec[1], PyMax(TorchVersionKeys),
                       {"torch_version_selected"})

get_torch_install_args(e, requirement) ==
  IF Len(requirement.specs) < 1 THEN Return(<<ReqStr(requirement)>>, {})
  ELSE with_selected_spec(e, requirement,
                          requirement.specs[SelectSpecIdx(requirement.specs, 1)])

\* ------------------------------------------------------------ input sets
\* detected versions of the form major.minor, with one to three digit majors
CudaMajors == {9, 11, 12, 110}

CudaVersionStrings == {Str(ma) \o <<".">> \o Str(mi) : ma \in CudaMajors, mi \in 0..MaxMinor}

\* the cuda.version entries a version.json can hold
JsonVersions == {<<"1","1",".","8",".","8","9">>}

VersionFiles ==
  {[kind |-> k, version |-> None] : k \in {"absent", "unreadable", "malformed", "json"}}
    \cup {[kind |-> "json", version |-> Some(v)] : v \in JsonVersions}

\* what nvcc --version prints on stdout
NvccOutputs == {<<"r","e","l","e","a","s","e"," ","1","2",".","1">>, <<"V","9",".","0"," ","c","u","d","a","_","9",".","0",".","r">>, <<"c","u","d","a","_","1","1","0",".","0">>}

Systems == {"Linux", "Windows", "Darwin", "FreeBSD"}

Envs ==
  {[cuda_home_exists |-> h, version_file |-> f, popen_fails |-> pf,
    nvcc_output |-> o, system |-> sy] :
      h \in BOOLEAN, f \in VersionFiles, pf \in BOOLEAN, o \in NvccOutputs, sy \in Systems}

\* the environments that differ in something the program can observe
ObservableEnvs ==
  {e \in Envs : /\ (~e.cuda_home_exists => e.version_file.kind = "absent")
                /\ (e.popen_fails => e.nvcc_output = <<"r","e","l","e","a","s","e"," ","1","2",".","1">>)}

SpecPool == {<<<<"=","=">>, <<"2",".","0",".","1">>>>, <<<<"<">>, <<"2",".","1",".","1">>>>, <<<<">","=">>, <<"1",".","1","3",".","0">>>>, <<<<"<","=">>, <<"2",".","2",".","0">>>>}

\* specs lists its constraints once each, in the order the library yields them
SpecLists ==
  UNION {{sp \in [1..n -> SpecPool] : \A i, j \in 1..n : sp[i] = sp[j] => i = j}
           : n \in 0..MaxSpecs}

TorchRequirements == {Requirement(<<"t","o","r","c","h">>, sp) : sp \in SpecLists}

RequirementPool ==
  {Requirement(<<"t","o","r","c","h">>, <<<<<<"=","=">>, <<"2",".","0",".","1">>>>>>),
   Requirement(<<"t","o","r","c","h">>, <<<<<<">","=">>, <<"2",".","0",".","0">>>>, <<<<"<">>, <<"2",".","2",".","0">>>>>>),
   Requirement(<<"t","o","r","c","h","v","i","s","i","o","n">>, <<<<<<"=","=">>, <<"0",".","1","5",".","2">>>>>>),
   Requirement(<<"o","n","n","x">>, <<<<<<">","=">>, <<"1",".","8",".","1">>>>>>)}

RequirementLists == UNION {[1..n -> RequirementPool] : n \in 0..MaxReqs}

SuffixArgs == {None, Some(<<"c","p","u">>), Some(<<"c","u","1","1","8">>)}

TorchVersionArgs == {None} \cup {Some(v) : v \in TorchVersions \cup {<<"1",".","1","3",".","0">>}}

\* ---------------------------------------------------------- state machine
VARIABLES env, call, result

vars == <<env, call, result>>

Init ==
  /\ env \in ObservableEnvs
  /\ call = [op |-> "none"]
  /\ result = Return(<<>>, {})

\* no call is in progress: the program keeps no state between calls
Idle == call.op = "none"

ParseRequirements ==
  \E requirements \in RequirementLists, skip_torch \in BOOLEAN :
    /\ Idle
    /\ call' = [op |-> "parse_requirements", requirements |-> requirements,
                skip_torch |-> skip_torch]
    /\ result' \in parse_requirements(requirements, skip_torch)
    /\ UNCHANGED env

GetCudaVersion ==
  /\ Idle
  /\ call' = [op |-> "get_cuda_version"]
  /\ result' = get_cuda_version(env)
  /\ UNCHANGED env

UpdateCudaVersion ==
  \E cuda_version \in CudaVersionStrings, torch_version \in TorchVersions :
    /\ Idle
    /\ call' = [op |-> "update_cuda_version", cuda_version |-> cuda_version,
                torch_version |-> torch_version]
    /\ result' = update_cuda_version_with_available_torch_cuda_build(cuda_version, torch_version)
    /\ UNCHANGED env

GetCudaSuffix ==
  \E cuda_version \in CudaVersionStrings \cup JsonVersions :
    /\ Idle
    /\ call' = [op |-> "get_cuda_suffix", cuda_version |-> cuda_version]
    /\ result' = Return(get_cuda_suffix(cuda_version), {})
    /\ UNCHANGED env

GetHardwareSuffix ==
  \E with_available_torch_build \in BOOLEAN, torch_version \in TorchVersionArgs :
    /\ Idle
    /\ call' = [op |-> "get_hardware_suffix",
                with_available_torch_build |-> with_available_torch_build,
                torch_version |-> torch_version]
    /\ result' = get_hardware_suffix(env, with_available_torch_build, torch_version)
    /\ UNCHANGED env

AddHardwareSuffixToTorch ==
  \E requirement \in TorchRequirements, hardware_suffix \in SuffixArgs,
     with_available_torch_build \in BOOLEAN :
    /\ Idle
    /\ call' = [op |-> "add_hardware_suffix_to_torch", requirement |-> requirement,
                hardware_suffix |-> hardware_suffix,
                with_available_torch_build |-> with_available_torch_build]
    /\ result' = add_hardware_suffix_to_torch(env, requirement, hardware_suffix,
                                              with_available_torch_build)
    /\ UNCHANGED env

GetTorchInstallArgs ==
  \E requirement \in TorchRequirements :
    /\ Idle
    /\ call' = [op |-> "get_torch_install_args", requirement |-> requirement]
    /\ result' = get_torch_install_args(env, requirement)
    /\ UNCHANGED env

\* the call returns to its caller (or its exception propagates)
Finish ==
  /\ ~Idle
  /\ call' = [op |-> "none"]
  /\ result' = Return(<<>>, {})
  /\ UNCHANGED env

Next ==
  \/ ParseRequirements
  \/ GetCudaVersion
  \/ UpdateCudaVersion
  \/ GetCudaSuffix
  \/ GetHardwareSuffix
  \/ AddHardwareSuffixToTorch
  \/ GetTorchInstallArgs
  \/ Finish

Spec == Init /\ [][Next]_vars

\* ------------------------------------------- versions ordered as numbers
RECURSIVE ParseInt(_)
ParseInt(s) == IF s = <<>> THEN 0 ELSE 10 * ParseInt(SubSeq(s, 1, Len(s) - 1)) + DigitVal(s[Len(s)])

\* <<major, minor>> of a version string major.minor
VersionNumber(v) == <<ParseInt(Split(v, ".")[1]), ParseInt(Split(v, ".")[2])>>

VersionLeq(a, b) ==
  \/ VersionNumber(a)[1] < VersionNumber(b)[1]
  \/ VersionNumber(a)[1] = VersionNumber(b)[1] /\ VersionNumber(a)[2] <= VersionNumber(b)[2]

SupportedCuda(torch_version) ==
  {AVAILABLE_TORCH_VERSIONS[torch_version].cuda[i] :
     i \in 1..Len(AVAILABLE_TORCH_VERSIONS[torch_version].cuda)}

MinSupported(torch_version) ==
  CHOOSE c \in SupportedCuda(torch_version) : \A d \in SupportedCuda(torch_version) : VersionLeq(c, d)

MaxSupported(torch_version) ==
  CHOOSE c \in SupportedCuda(torch_version) : \A d \in SupportedCuda(torch_version) : VersionLeq(d, c)

\* C1: for every table torch version and every detected major.minor CUDA
\* version, the negotiated version lies numerically between the smallest and
\* the largest CUDA version listed for that torch version.
C1_WithinSupportedBounds ==
  call.op = "update_cuda_version" =>
    /\ result.kind = "return"
    /\ VersionLeq(MinSupported(call.torch_version), result.val)
    /\ VersionLeq(result.val, MaxSupported(call.torch_version))

NumericClamp(cuda_version, torch_version) ==
  IF ~VersionLeq(MinSupported(torch_version), cuda_version) THEN MinSupported(torch_version)
  ELSE IF ~VersionLeq(cuda_version, MaxSupported(torch_version)) THEN MaxSupported(torch_version)
  ELSE cuda_version

\* C2: the negotiated version is the numeric clamp of the detected version:
\* the minimum when below it, the maximum when above it, unchanged inside.
C2_NumericClamp ==
  call.op = "update_cuda_version" =>
    /\ result.kind = "return"
    /\ result.val = NumericClamp(call.cuda_version, call.torch_version)

\* ------------------------------------------------------ CPU fallback path
EndsWith(s, p) == Len(s) >= Len(p) /\ SubSeq(s, Len(s) - Len(p) + 1, Len(s)) = p

\* accelerator detection returns no value in this environment
DetectsNothing(e) == get_cuda_version(e).kind = "return" /\ ~get_cuda_version(e).val.some

EmitsCpuIndexUrl ==
  /\ result.kind = "return"
  /\ Len(result.val) = 4
  /\ result.val[1] = <<"-","-","e","x","t","r","a","-","i","n","d","e","x","-","u","r","l">>
  /\ EndsWith(result.val[2], <<"/","c","p","u">>)

\* C3 as stated: whenever detection returns None, get_hardware_suffix returns
\* "cpu" for every argument, and get_torch_install_args on Linux/Windows
\* emits the index URL ending in /cpu.
C3_CpuFallbackEveryRequirement ==
  DetectsNothing(env) =>
    /\ call.op = "get_hardware_suffix" => result.kind = "return" /\ result.val = <<"c","p","u">>
    /\ (call.op = "get_torch_install_args" /\ env.system \in {"Linux", "Windows"})
         => EmitsCpuIndexUrl

\* C3 amended: whenever detection returns None, get_hardware_suffix returns
\* "cpu" for every argument, and get_torch_install_args on Linux/Windows,
\* given a torch requirement with one or two version constraints, emits the
\* index URL ending in /cpu; with no constraint it returns the bare
\* requirement alone, with more than two it raises ValueError.
C3_CpuFallback ==
  DetectsNothing(env) =>
    /\ call.op = "get_hardware_suffix" => result.kind = "return" /\ result.val = <<"c","p","u">>
    /\ (/\ call.op = "get_torch_install_args"
        /\ env.system \in {"Linux", "Windows"}
        /\ Len(call.requirement.specs) \in 1..2)
         => EmitsCpuIndexUrl
    /\ (/\ call.op = "get_torch_install_args"
        /\ env.system \in {"Linux", "Windows"}
        /\ Len(call.requirement.specs) = 0)
         => result = Return(<<ReqStr(call.requirement)>>, {})
    /\ (/\ call.op = "get_torch_install_args"
        /\ env.system \in {"Linux", "Windows"}
        /\ Len(call.requirement.specs) > 2)
         => result.kind = "raise" /\ result.exc = "ValueError"

C3_Witness ==
  /\ DetectsNothing(env)
  /\ call.op = "get_torch_install_args"
  /\ env.system = "Linux"
  /\ Len(call.requirement.specs) = 2
  /\ EmitsCpuIndexUrl

\* ------------------------------------------------------------ shape error
SupportedSystems == {"Linux", "Windows", "Darwin", "macos"}

\* C4: with more than two version constraints, add_hardware_suffix_to_torch
\* (for every given hardware suffix) and get_torch_install_args (on Linux,
\* Windows and macOS, for every detected accelerator state) fail with
\* ValueError and return nothing.
C4_ShapeError ==
  /\ (/\ call.op = "add_hardware_suffix_to_torch"
      /\ call.hardware_suffix.some
      /\ Len(call.requirement.specs) > 2)
       => result.kind = "raise" /\ result.exc = "ValueError"
  /\ (/\ call.op = "get_torch_install_args"
      /\ env.system \in SupportedSystems
      /\ get_cuda_version(env).kind = "return"
      /\ Len(call.requirement.specs) > 2)
       => result.kind = "raise" /\ result.exc = "ValueError"

\* ------------------------------------------------------ missing dependency
NoTorch(requirements) == \A i \in 1..Len(requirements) : requirements[i].unsafe_name # <<"t","o","r","c","h">>

\* C5: parse_requirements raises ValueError exactly when no requirement is
\* named torch and skip_torch is False; otherwise it returns, with None as
\* the torch requirement when torch is absent.
C5_MissingDependencyIff ==
  call.op = "parse_requirements" =>
    /\ (result.kind = "raise" /\ result.exc = "ValueError")
         <=> (NoTorch(call.requirements) /\ ~call.skip_torch)
    /\ ~(NoTorch(call.requirements) /\ ~call.skip_torch) => result.kind = "return"
    /\ (result.kind = "return" /\ NoTorch(call.requirements))
         => result.val.torch_requirement = None

C5_Witness ==
  /\ call.op = "parse_requirements"
  /\ Len(call.requirements) = 2
  /\ NoTorch(call.requirements)
  /\ ~call.skip_torch
  /\ result.kind = "raise"

\* ----------------------------------------------------- unsupported platform
\* C6: on a host OS other than Linux, Windows, macOS/Darwin,
\* get_torch_install_args raises RuntimeError for every torch requirement.
C6_UnsupportedPlatform ==
  (call.op = "get_torch_install_args" /\ env.system \notin SupportedSystems)
    => result.kind = "raise" /\ result.exc = "RuntimeError"

\* ------------------------------------------------------- graceful detection
IsMajorMinor(v) ==
  /\ Len(Split(v, ".")) = 2
  /\ \A i \in 1..2 : /\ Split(v, ".")[i] # <<>>
                     /\ \A j \in 1..Len(Split(v, ".")[i]) : IsDigit(Split(v, ".")[i][j])

\* C7: get_cuda_version never raises: in every environment it returns a
\* major.minor version or None.
C7_DetectionNeverRaises ==
  call.op = "get_cuda_version" =>
    /\ result.kind = "return"
    /\ result.val.some => IsMajorMinor(result.val.v)

\* ------------------------------------------------------ companion version
OperatorChars == {"=", "<", ">", "!", "~"}

RECURSIVE OperatorLen(_, _)
OperatorLen(s, i) == IF i <= Len(s) /\ s[i] \in OperatorChars THEN 1 + OperatorLen(s, i + 1) ELSE 0

\* the operator a constraint such as ==2.0.1+cu118 starts with
ConstraintOperator(c) == SubSeq(c, 1, OperatorLen(c, 1))

\* its version, without the +suffix local part
ConstraintVersion(c) == Split(SubSeq(c, OperatorLen(c, 1) + 1, Len(c)), "+")[1]

\* the constraints of an emitted specifier name<c1>, <c2>
EmittedConstraints(specifier, name) ==
  Split(Replace(SubSeq(specifier, Len(name) + 1, Len(specifier)), <<","," ">>, <<",">>), ",")

\* C8: on Linux/Windows, for a torch requirement with at least one version
\* constraint, the emitted torchvision specifier carries the operator of the
\* selected constraint of the emitted torch specifier and the table's
\* companion version of the torch version in that constraint.
C8_CompanionTorchvision ==
  (/\ call.op = "get_torch_install_args"
   /\ env.system \in {"Linux", "Windows"}
   /\ Len(call.requirement.specs) >= 1
   /\ result.kind = "return")
    => LET torch == EmittedConstraints(result.val[3], <<"t","o","r","c","h">>)
                      [SelectSpecIdx(call.requirement.specs, 1)]
           torchvision == EmittedConstraints(result.val[4], <<"t","o","r","c","h","v","i","s","i","o","n">>)[1]
       IN /\ ConstraintOperator(torchvision) = ConstraintOperator(torch)
          /\ ConstraintVersion(torch) \in TorchVersions
          /\ ConstraintVersion(torchvision) =
               AVAILABLE_TORCH_VERSIONS[ConstraintVersion(torch)].torchvision

\* ----------------------------------------------------------- pure suffix
ExpectedSuffix(cuda_version) == <<"c","u">> \o SelectSeq(cuda_version, LAMBDA c : c # ".")

\* C9: get_cuda_suffix returns "cu" followed by the version with its dots
\* removed, whatever the environment, and the call changes no state.
C9_SuffixPure ==
  /\ [](call.op = "get_cuda_suffix"
          => result = Return(ExpectedSuffix(call.cuda_version), {}))
  /\ [][call'.op = "get_cuda_suffix" => env' = env]_vars

C9_Witness ==
  /\ call.op = "get_cuda_suffix"
  /\ call.cuda_version = <<"1","1",".","8",".","8","9">>
  /\ result.val = <<"c","u","1","1","8","8","9">>
  /\ env.version_file.kind = "malformed"

\* ------------------------------------------------------ other requirements
\* C10: the other requirements returned by parse_requirements hold no
\* duplicates, not the torch requirement, and no requirement whose name
\* starts with "torch".
C10_OthersExcludeTorchRelated ==
  (call.op = "parse_requirements" /\ result.kind = "return") =>
    LET others == result.val.other_requirements
    IN /\ \A i, j \in 1..Len(others) : others[i] = others[j] => i = j
       /\ \A i \in 1..Len(others) :
            /\ Some(others[i]) # result.val.torch_requirement
            /\ ~StartsWith(others[i], <<"t","o","r","c","h">>)

====
